---- MODULE Spec2Model ----
(***************************************************************************)
(* Difficulty retargeting of chaincfg/params.go: the compact-target codec, *)
(* the header accessor, algorithm A (calcDiffAdjustBitcoin) and the epoch  *)
(* resolvers BTCDiff and LTCDiff, run over a header file that grows by     *)
(* appended headers.  The file is the pair (base, tail): base describes    *)
(* the headers it held at the start, tail lists the headers appended.      *)
(*                                                                         *)
(* Representation.  TLC integers are 32 bits wide, so                      *)
(*   - a big.Int is a record [neg, mag]: mag is the magnitude in base 256, *)
(*     least significant byte first, without leading zero bytes;           *)
(*   - a uint32 compact value 0xEEMMMMMM is the record [e |-> 0xEE,        *)
(*     m |-> 0xMMMMMM] (m keeps the sign bit 0x800000);                    *)
(*   - a time.Duration of the parameters is kept in whole seconds (every   *)
(*     parameter is a whole number of seconds) and a header timestamp in   *)
(*     seconds (wire headers carry a uint32 number of seconds).            *)
(*   - a Go string of the registry (a human-readable part, a prefix) is a  *)
(*     tuple of its characters, each a string of length one.               *)
(***************************************************************************)
EXTENDS Integers, Sequences, FiniteSets, TLC

VARIABLES net, startheight, base, tail, call, adj, registry, last, procs

vars == <<net, startheight, base, tail, call, adj, registry, last, procs>>

(***************************************************************************)
(* math/big on magnitudes                                                  *)
(***************************************************************************)
\* Sums, products and quotients run over the digits by halving the digit
\* sequence: the low half first for a carry, the high half first for a
\* remainder.
MaxOf(S) == CHOOSE x \in S : \A y \in S : y <= x

Norm(s) ==
    LET nz == {i \in 1..Len(s) : s[i] # 0}
    IN  IF nz = {} THEN <<>> ELSE SubSeq(s, 1, MaxOf(nz))

Pad(s, n) == s \o [i \in 1..(n - Len(s)) |-> 0]

\* the magnitude of an int n, 0 <= n < 2^31
NatMag(n) ==
    Norm(<<n % 256, (n \div 256) % 256, (n \div 65536) % 256, n \div 16777216>>)

\* the int of a magnitude below 2^31
MagNat(s) ==
    LET t == Pad(s, 4) IN t[1] + 256 * t[2] + 65536 * t[3] + 16777216 * t[4]

\* the one element of a singleton; a carry is worked out before the digits
\* above it, as the element k of {carry}
The(S) == CHOOSE x \in S : TRUE

\* digits and carry of a + b + c, Len(a) = Len(b) > 0
RECURSIVE AddSeq(_, _, _)
AddSeq(a, b, c) ==
    LET n == Len(a)
        h == n \div 2
    IN  IF n = 1
        THEN [s |-> <<(a[1] + b[1] + c) % 256>>, c |-> (a[1] + b[1] + c) \div 256]
        ELSE LET lo == AddSeq(SubSeq(a, 1, h), SubSeq(b, 1, h), c)
             IN  The({LET hi == AddSeq(SubSeq(a, h + 1, n), SubSeq(b, h + 1, n), k)
                      IN  [s |-> lo.s \o hi.s, c |-> hi.c] : k \in {lo.c}})

AddMag(a, b) ==
    LET n == IF Len(a) > Len(b) THEN Len(a) ELSE Len(b)
        r == AddSeq(Pad(a, n), Pad(b, n), 0)
    IN  IF n = 0 THEN <<>>
        ELSE IF r.c = 0 THEN Norm(r.s) ELSE r.s \o <<r.c>>

\* digits and borrow of a - b - c, Len(a) = Len(b) > 0
RECURSIVE SubSeqB(_, _, _)
SubSeqB(a, b, c) ==
    LET n == Len(a)
        h == n \div 2
    IN  IF n = 1
        THEN [s |-> <<(a[1] - b[1] - c) % 256>>,
              c |-> IF a[1] - b[1] - c < 0 THEN 1 ELSE 0]
        ELSE LET lo == SubSeqB(SubSeq(a, 1, h), SubSeq(b, 1, h), c)
             IN  The({LET hi == SubSeqB(SubSeq(a, h + 1, n), SubSeq(b, h + 1, n), k)
                      IN  [s |-> lo.s \o hi.s, c |-> hi.c] : k \in {lo.c}})

\* a - b for a >= b
SubMag(a, b) ==
    IF a = <<>> THEN <<>> ELSE Norm(SubSeqB(a, Pad(b, Len(a)), 0).s)

CmpMag(a, b) ==
    LET diff == {i \in 1..Len(a) : i <= Len(b) /\ a[i] # b[i]}
    IN  IF Len(a) < Len(b) THEN -1
        ELSE IF Len(a) > Len(b) THEN 1
        ELSE IF diff = {} THEN 0
        ELSE IF a[MaxOf(diff)] < b[MaxOf(diff)] THEN -1 ELSE 1

\* digits and carry of a * k + c for a digit k, Len(a) > 0
RECURSIVE MulSeq(_, _, _)
MulSeq(a, k, c) ==
    LET n == Len(a)
        h == n \div 2
    IN  IF n = 1
        THEN [s |-> <<(a[1] * k + c) % 256>>, c |-> (a[1] * k + c) \div 256]
        ELSE LET lo == MulSeq(SubSeq(a, 1, h), k, c)
             IN  The({LET hi == MulSeq(SubSeq(a, h + 1, n), k, c2)
                      IN  [s |-> lo.s \o hi.s, c |-> hi.c] : c2 \in {lo.c}})

RECURSIVE MulMag(_, _)
MulMag(a, b) ==
    LET n == Len(b)
        h == n \div 2
        r == MulSeq(a, b[1], 0)
        hi == MulMag(a, SubSeq(b, h + 1, n))
    IN  IF a = <<>> \/ b = <<>> THEN <<>>
        ELSE IF n = 1 THEN Norm(r.s \o <<r.c>>)
        ELSE AddMag(MulMag(a, SubSeq(b, 1, h)),
                    IF hi = <<>> THEN hi ELSE [i \in 1..h |-> 0] \o hi)

\* quotient digits and remainder of (r0 * 256^Len(a) + a) by an int d,
\* r0 < d < 2^23, Len(a) > 0
RECURSIVE DivSeq(_, _, _)
DivSeq(a, d, r0) ==
    LET n == Len(a)
        h == n \div 2
    IN  IF n = 1
        THEN [q |-> <<(r0 * 256 + a[1]) \div d>>, r |-> (r0 * 256 + a[1]) % d]
        ELSE LET hi == DivSeq(SubSeq(a, h + 1, n), d, r0)
             IN  The({LET lo == DivSeq(SubSeq(a, 1, h), d, r1)
                      IN  [q |-> lo.q \o hi.q, r |-> lo.r] : r1 \in {hi.r}})

DivMag(a, d) ==
    IF a = <<>> THEN [q |-> <<>>, r |-> 0]
    ELSE LET qr == DivSeq(a, d, 0) IN [q |-> Norm(qr.q), r |-> qr.r]

LshMag(a, nbytes) ==
    IF a = <<>> THEN a ELSE [i \in 1..nbytes |-> 0] \o a

RshMag(a, nbytes) ==
    IF nbytes >= Len(a) THEN <<>> ELSE SubSeq(a, nbytes + 1, Len(a))

(***************************************************************************)
(* math/big.Int                                                            *)
(***************************************************************************)
MkBig(isNeg, m) == [neg |-> isNeg /\ Norm(m) # <<>>, mag |-> Norm(m)]

NewInt(n) == MkBig(n < 0, NatMag(IF n < 0 THEN -n ELSE n))

Sign(x) == IF x.mag = <<>> THEN 0 ELSE IF x.neg THEN -1 ELSE 1

Neg(x) == MkBig(~x.neg, x.mag)

Cmp(x, y) ==
    IF x.neg /\ ~y.neg THEN -1
    ELSE IF ~x.neg /\ y.neg THEN 1
    ELSE IF x.neg THEN CmpMag(y.mag, x.mag)
    ELSE CmpMag(x.mag, y.mag)

Mul(x, y) == MkBig(x.neg # y.neg, MulMag(x.mag, y.mag))

Add(x, y) ==
    IF x.mag = <<>> THEN y
    ELSE IF y.mag = <<>> THEN x
    ELSE IF x.neg = y.neg THEN MkBig(x.neg, AddMag(x.mag, y.mag))
    ELSE IF x.mag = y.mag THEN MkBig(FALSE, <<>>)
    ELSE IF CmpMag(x.mag, y.mag) >= 0 THEN MkBig(x.neg, SubMag(x.mag, y.mag))
    ELSE MkBig(y.neg, SubMag(y.mag, x.mag))

Sub(x, y) == Add(x, Neg(y))

\* big.Int.Div by big.NewInt(d), d > 0: Euclidean division, the remainder is
\* never negative, so a negative dividend rounds away from zero.
Div(x, d) ==
    LET qr == DivMag(x.mag, d)
    IN  IF ~x.neg \/ qr.r = 0 THEN MkBig(x.neg, qr.q)
        ELSE MkBig(TRUE, AddMag(qr.q, <<1>>))

(***************************************************************************)
(* difficulty.CompactToBig / difficulty.BigToCompact                       *)
(***************************************************************************)
Compact(exp, man) == [e |-> exp, m |-> man]

SignBit(c) == c.m >= 8388608

Mantissa(c) == c.m % 8388608

CompactToBig(c) ==
    LET mantissa == Mantissa(c)
        bn == IF c.e <= 3
              THEN NatMag(mantissa \div (256 ^ (3 - c.e)))
              ELSE LshMag(NatMag(mantissa), c.e - 3)
    IN  MkBig(SignBit(c), bn)

BigToCompact(n) ==
    IF Sign(n) = 0 THEN Compact(0, 0)
    ELSE
      LET exponent == Len(n.mag)
          \* Rsh of a negative big.Int rounds toward minus infinity
          shifted  == IF n.neg
                      THEN AddMag(RshMag(SubMag(n.mag, <<1>>), exponent - 3), <<1>>)
                      ELSE RshMag(n.mag, exponent - 3)
          mant0    == IF exponent <= 3
                      THEN MagNat(n.mag) * (256 ^ (3 - exponent))
                      ELSE MagNat(shifted)
          carry    == (mant0 % 16777216) >= 8388608
          mant1    == IF carry THEN mant0 \div 256 ELSE mant0
          exp1     == (IF carry THEN exponent + 1 ELSE exponent) % 256
          \* uint32(exponent<<24) | mantissa: a mantissa of 0x1000000 lands in
          \* the lowest bit of the exponent byte
          exp2     == IF mant1 >= 16777216 /\ exp1 % 2 = 0 THEN exp1 + 1 ELSE exp1
          mant2    == mant1 % 16777216
      IN  Compact(exp2, IF n.neg /\ mant2 < 8388608 THEN mant2 + 8388608 ELSE mant2)

(***************************************************************************)
(* Params and the predefined networks (durations in seconds)               *)
(***************************************************************************)
mainPowLimit == Sub(MkBig(FALSE, LshMag(<<1>>, 28)), NewInt(1))

regressionPowLimit == Sub(MkBig(FALSE, LshMag(<<128>>, 31)), NewInt(1))

testNet3PowLimit == Sub(MkBig(FALSE, LshMag(<<1>>, 28)), NewInt(1))

simNetPowLimit == Sub(MkBig(FALSE, LshMag(<<128>>, 31)), NewInt(1))

sigNetPowLimit == MkBig(FALSE, LshMag(NatMag(227246), 27))

MainNetParams ==
    [Name |-> "mainnet", Net |-> "MainNet", DiffCalcFunction |-> "nil",
     Bech32HRPSegwit |-> <<"v", "t", "c">>,
     PubKeyHashAddrID |-> 71,
     ScriptHashAddrID |-> 5, HDPrivateKeyID |-> <<4, 136, 173, 228>>,
     HDPublicKeyID |-> <<4, 136, 178, 30>>,
     PowLimit |-> mainPowLimit, PowLimitBits |-> Compact(30, 1048575),
     TargetTimespan |-> 302400, TargetTimePerBlock |-> 150,
     RetargetAdjustmentFactor |-> 4,
     ReduceMinDifficulty |-> FALSE, MinDiffReductionTime |-> 0]

RegressionNetParams ==
    [Name |-> "regtest", Net |-> "TestNet", DiffCalcFunction |-> "nil",
     Bech32HRPSegwit |-> <<"r", "v", "t", "c">>,
     PubKeyHashAddrID |-> 74,
     ScriptHashAddrID |-> 196, HDPrivateKeyID |-> <<4, 53, 131, 148>>,
     HDPublicKeyID |-> <<4, 53, 135, 207>>,
     PowLimit |-> regressionPowLimit, PowLimitBits |-> Compact(32, 8388607),
     TargetTimespan |-> 1209600, TargetTimePerBlock |-> 600,
     RetargetAdjustmentFactor |-> 4,
     ReduceMinDifficulty |-> TRUE, MinDiffReductionTime |-> 1200]

TestNet3Params ==
    [Name |-> "testnet3", Net |-> "TestNet3",
     DiffCalcFunction |-> "VTCTestDiff",
     Bech32HRPSegwit |-> <<"t", "v", "t", "c">>,
     PubKeyHashAddrID |-> 74,
     ScriptHashAddrID |-> 196, HDPrivateKeyID |-> <<4, 53, 131, 148>>,
     HDPublicKeyID |-> <<4, 53, 135, 207>>,
     PowLimit |-> testNet3PowLimit, PowLimitBits |-> Compact(30, 1048575),
     TargetTimespan |-> 302400, TargetTimePerBlock |-> 150,
     RetargetAdjustmentFactor |-> 4,
     ReduceMinDifficulty |-> TRUE, MinDiffReductionTime |-> 1200]

SimNetParams ==
    [Name |-> "simnet", Net |-> "SimNet", DiffCalcFunction |-> "nil",
     Bech32HRPSegwit |-> <<"s", "b">>,
     PubKeyHashAddrID |-> 63,
     ScriptHashAddrID |-> 123, HDPrivateKeyID |-> <<4, 32, 185, 0>>,
     HDPublicKeyID |-> <<4, 32, 189, 58>>,
     PowLimit |-> simNetPowLimit, PowLimitBits |-> Compact(32, 8388607),
     TargetTimespan |-> 1209600, TargetTimePerBlock |-> 600,
     RetargetAdjustmentFactor |-> 4,
     ReduceMinDifficulty |-> TRUE, MinDiffReductionTime |-> 1200]

SigNetParams ==
    [Name |-> "signet", Net |-> "SigNet", DiffCalcFunction |-> "nil",
     Bech32HRPSegwit |-> <<"t", "b">>,
     PubKeyHashAddrID |-> 111,
     ScriptHashAddrID |-> 196, HDPrivateKeyID |-> <<4, 53, 131, 148>>,
     HDPublicKeyID |-> <<4, 53, 135, 207>>,
     PowLimit |-> sigNetPowLimit, PowLimitBits |-> Compact(30, 227246),
     TargetTimespan |-> 1209600, TargetTimePerBlock |-> 600,
     RetargetAdjustmentFactor |-> 4,
     ReduceMinDifficulty |-> FALSE, MinDiffReductionTime |-> 1200]

Networks ==
    {MainNetParams, RegressionNetParams, TestNet3Params, SimNetParams,
     SigNetParams}

\* the Params a network name stands for
Params(name) == CHOOSE p \in Networks : p.Name = name

NetNames == {p.Name : p \in Networks}

(***************************************************************************)
(* The registry of networks: Register, RegisterHDKeyID, init               *)
(***************************************************************************)
\* the five maps of the package, empty as the var block makes them
EmptyRegistry ==
    [registeredNets |-> {}, pubKeyHashAddrIDs |-> {}, scriptHashAddrIDs |-> {},
     bech32SegwitPrefixes |-> {}, hdPrivToPubKeyIDs |-> <<>>]

\* what a call returns and the registry it leaves
Returns(err, reg) == [err |-> err, registry |-> reg]

\* copy(key[:], id) into a zeroed [4]byte: the first four bytes of id, and
\* zeros where id is shorter
Copy4(id) == [i \in 1..4 |-> IF i <= Len(id) THEN id[i] ELSE 0]

\* RegisterHDKeyID without the test of the lengths
RegisterHDKeyIDAnyLength(reg, hdPublicKeyID, hdPrivateKeyID) ==
    Returns("nil",
            [reg EXCEPT !.hdPrivToPubKeyIDs =
                 (Copy4(hdPrivateKeyID) :> hdPublicKeyID) @@ @])

RegisterHDKeyID(reg, hdPublicKeyID, hdPrivateKeyID) ==
    IF Len(hdPublicKeyID) # 4 \/ Len(hdPrivateKeyID) # 4
    THEN Returns("ErrInvalidHDKeyID", reg)
    ELSE Returns("nil",
                 [reg EXCEPT !.hdPrivToPubKeyIDs =
                      (Copy4(hdPrivateKeyID) :> hdPublicKeyID) @@ @])

\* the public ID and the error of a lookup; nil is the empty slice
HDPrivateKeyToPublicKeyID(reg, id) ==
    IF Len(id) # 4
    THEN [pub |-> <<>>, err |-> "ErrUnknownHDKeyID"]
    ELSE IF Copy4(id) \notin DOMAIN reg.hdPrivToPubKeyIDs
         THEN [pub |-> <<>>, err |-> "ErrUnknownHDKeyID"]
         ELSE [pub |-> reg.hdPrivToPubKeyIDs[Copy4(id)], err |-> "nil"]

\* Register without the test of registeredNets
RegisterOverwrites(reg, params) ==
    LET ids == [reg EXCEPT
                  !.registeredNets = @ \cup {params.Net},
                  !.pubKeyHashAddrIDs = @ \cup {params.PubKeyHashAddrID},
                  !.scriptHashAddrIDs = @ \cup {params.ScriptHashAddrID}]
        hd == RegisterHDKeyID(ids, params.HDPublicKeyID, params.HDPrivateKeyID)
    IN  IF hd.err # "nil" THEN hd
        ELSE Returns("nil",
                     [hd.registry EXCEPT !.bech32SegwitPrefixes =
                          @ \cup {params.Bech32HRPSegwit \o <<"1">>}])

Register(reg, params) ==
    IF params.Net \in reg.registeredNets
    THEN Returns("ErrDuplicateNet", reg)
    ELSE LET ids == [reg EXCEPT
                       !.registeredNets = @ \cup {params.Net},
                       !.pubKeyHashAddrIDs = @ \cup {params.PubKeyHashAddrID},
                       !.scriptHashAddrIDs = @ \cup {params.ScriptHashAddrID}]
             hd == RegisterHDKeyID(ids, params.HDPublicKeyID,
                                   params.HDPrivateKeyID)
         IN  IF hd.err # "nil" THEN hd
             ELSE Returns("nil",
                          [hd.registry EXCEPT !.bech32SegwitPrefixes =
                               @ \cup {params.Bech32HRPSegwit \o <<"1">>}])

\* IsPubKeyHashAddrID that also finds the script hash identifiers
IsPubKeyHashAddrIDEither(reg, id) ==
    id \in reg.pubKeyHashAddrIDs \cup reg.scriptHashAddrIDs

IsPubKeyHashAddrID(reg, id) == id \in reg.pubKeyHashAddrIDs

IsScriptHashAddrID(reg, id) == id \in reg.scriptHashAddrIDs

\* the ASCII letters; strings.ToLower maps each upper-case letter to its
\* lower-case letter and leaves the other characters
UpperLetters ==
    <<"A", "B", "C", "D", "E", "F", "G", "H", "I", "J", "K", "L", "M",
      "N", "O", "P", "Q", "R", "S", "T", "U", "V", "W", "X", "Y", "Z">>

LowerLetters ==
    <<"a", "b", "c", "d", "e", "f", "g", "h", "i", "j", "k", "l", "m",
      "n", "o", "p", "q", "r", "s", "t", "u", "v", "w", "x", "y", "z">>

ToLower(s) ==
    [i \in 1..Len(s) |->
       IF \E k \in 1..Len(UpperLetters) : UpperLetters[k] = s[i]
       THEN LowerLetters[CHOOSE k \in 1..Len(UpperLetters) :
                            UpperLetters[k] = s[i]]
       ELSE s[i]]

IsBech32SegwitPrefix(reg, prefix) == ToLower(prefix) \in reg.bech32SegwitPrefixes

\* mustRegister panics on an error; init has none to panic on
mustRegister(reg, params) == Register(reg, params).registry

\* the registry when the package is initialized
init ==
    mustRegister(mustRegister(mustRegister(mustRegister(EmptyRegistry,
        MainNetParams), TestNet3Params), RegressionNetParams), SimNetParams)

(***************************************************************************)
(* The header file behind the io.ReadSeeker                                *)
(***************************************************************************)
HeaderSize == 80

NanosPerSecond == 1000000000

\* timestamp of the main network's genesis header, the first header of a file
BaseTime == 1389311371

MkHeader(ts, bits, fill) ==
    [Version |-> 1, PrevBlock |-> fill, MerkleRoot |-> fill,
     Timestamp |-> ts, Bits |-> bits, Nonce |-> 0]

StoreLen(r) == r.base.len + Len(r.tail)

\* header number k (from 0) of the file; its block height is r.base.start + k
StoreHeader(r, k) ==
    IF k < r.base.len
    THEN MkHeader(BaseTime + k * r.base.spacing,
                  IF (r.base.start + k) % r.base.epoch = 0
                  THEN r.base.epochBits ELSE r.base.bits,
                  r.base.fill)
    ELSE r.tail[k - r.base.len + 1]

\* byte i (0..79) of a serialized header: version, previous hash, merkle
\* root, timestamp, bits, nonce, little-endian.  A hash is 32 equal bytes.
HeaderByte(h, i) ==
    IF i < 4 THEN (h.Version \div (256 ^ i)) % 256
    ELSE IF i < 36 THEN h.PrevBlock
    ELSE IF i < 68 THEN h.MerkleRoot
    ELSE IF i < 72 THEN (h.Timestamp \div (256 ^ (i - 68))) % 256
    ELSE IF i < 75 THEN (h.Bits.m \div (256 ^ (i - 72))) % 256
    ELSE IF i = 75 THEN h.Bits.e
    ELSE (h.Nonce \div (256 ^ (i - 76))) % 256

StoreByte(r, pos) == HeaderByte(StoreHeader(r, pos \div HeaderSize), pos % HeaderSize)

\* io.Seeker.Seek(offset, SEEK_SET): a negative position is an error
Seek(offset) ==
    [err |-> IF offset < 0 THEN "negative position" ELSE "nil", pos |-> offset]

\* wire.BlockHeader.Deserialize at position pos: the timestamp and the bits
\* of the 80 bytes found there; "EOF" when the file ends before them
Deserialize(r, pos) ==
    IF pos > HeaderSize * StoreLen(r) - HeaderSize
    THEN [err |-> "EOF", Timestamp |-> 0, Bits |-> Compact(0, 0)]
    ELSE [err |-> "nil",
          Timestamp |-> StoreByte(r, pos + 68) + 256 * StoreByte(r, pos + 69)
                        + 65536 * StoreByte(r, pos + 70)
                        + 16777216 * StoreByte(r, pos + 71),
          Bits |-> Compact(StoreByte(r, pos + 75),
                           StoreByte(r, pos + 72) + 256 * StoreByte(r, pos + 73)
                           + 65536 * StoreByte(r, pos + 74))]

\* Deserialize(r) where the read before left the file, without a Seek
DeserializeInPlace(r, offset) ==
    LET d == Deserialize(r, offset)
    IN  [err |-> d.err, Timestamp |-> d.Timestamp, Bits |-> d.Bits,
         io |-> << <<"read", offset>> >>]

\* r.Seek(offset) followed, when it succeeds, by Deserialize(r)
SeekRead(r, offset) ==
    LET s == Seek(offset)
        d == Deserialize(r, s.pos)
    IN  IF s.err # "nil"
        THEN [err |-> s.err, Timestamp |-> 0, Bits |-> Compact(0, 0),
              io |-> << <<"seek", offset>> >>]
        ELSE [err |-> d.err, Timestamp |-> d.Timestamp, Bits |-> d.Bits,
              io |-> << <<"seek", offset>>, <<"read", offset>> >>]

\* int64(80*k) of an int32 k: the product wraps to 32 bits before widening
Mul80(k) ==
    LET x == (5 * (k % 268435456)) % 268435456
    IN  IF x >= 134217728 THEN 16 * (x - 268435456) ELSE 16 * x

\* Go's % truncates toward zero
GoMod(a, b) == IF a >= 0 THEN a % b ELSE -((-a) % b)

(***************************************************************************)
(* Algorithm A: calcDiffAdjustBitcoin                                      *)
(***************************************************************************)
\* ClampedDuration without the clamp to the minimum retarget timespan
ClampedDurationNoMin(start, end, p) ==
    LET maxRetargetTimespan == p.TargetTimespan * p.RetargetAdjustmentFactor
        duration == Mul(NewInt(end.Timestamp - start.Timestamp),
                        NewInt(NanosPerSecond))
    IN  IF Cmp(duration, NewInt(maxRetargetTimespan)) > 0
        THEN NewInt(maxRetargetTimespan)
        ELSE duration

\* the duration of the adjustment: UnixNano difference of the two headers,
\* clamped between the minimum and the maximum retarget timespan (seconds)
ClampedDuration(start, end, p) ==
    LET minRetargetTimespan == p.TargetTimespan \div p.RetargetAdjustmentFactor
        maxRetargetTimespan == p.TargetTimespan * p.RetargetAdjustmentFactor
        duration == Mul(NewInt(end.Timestamp - start.Timestamp),
                        NewInt(NanosPerSecond))
    IN  IF Cmp(duration, NewInt(minRetargetTimespan)) < 0
        THEN NewInt(minRetargetTimespan)
        ELSE IF Cmp(duration, NewInt(maxRetargetTimespan)) > 0
        THEN NewInt(maxRetargetTimespan)
        ELSE duration

\* newTarget before the clip: old * duration / target timespan
NewTarget(start, end, p) ==
    Div(Mul(CompactToBig(start.Bits), ClampedDuration(start, end, p)),
        p.TargetTimespan)

calcDiffAdjustBitcoin(start, end, p) ==
    LET newTarget == NewTarget(start, end, p)
        powLimit  == CompactToBig(p.PowLimitBits)
    IN  BigToCompact(IF Cmp(newTarget, powLimit) > 0 THEN powLimit ELSE newTarget)

(***************************************************************************)
(* Algorithms B and C: BTCDiff and LTCDiff                                 *)
(***************************************************************************)
EpochLength(p) == p.TargetTimespan \div p.TargetTimePerBlock

Result(bits, err, io) == [bits |-> bits, err |-> err, io |-> io]

\* Failed that falls back to the easiest bits of the main network
FailedWithFallback(err, io) == Result(Compact(30, 1048575), err, io)

Failed(err, io) == Result(Compact(0, 0), err, io)

\* the three reads both resolvers start with: n-1, n and the epoch start.
\* err is that of the first seek or read that failed.
ReadHeaders(r, height, sh, p) ==
    LET offsetHeight == height - sh
        prev == SeekRead(r, Mul80(offsetHeight - 1))
        cur  == SeekRead(r, Mul80(offsetHeight))
        epochStart ==
            SeekRead(r, Mul80(offsetHeight - GoMod(height, EpochLength(p))))
    IN  IF prev.err # "nil"
        THEN [err |-> prev.err, io |-> prev.io,
              prev |-> prev, cur |-> prev, epochStart |-> prev]
        ELSE IF cur.err # "nil"
        THEN [err |-> cur.err, io |-> prev.io \o cur.io,
              prev |-> prev, cur |-> cur, epochStart |-> cur]
        ELSE [err |-> epochStart.err, io |-> prev.io \o cur.io \o epochStart.io,
              prev |-> prev, cur |-> cur, epochStart |-> epochStart]

\* NotNewEpoch that reduces the difficulty on every network
NotNewEpochAnyNet(prev, cur, epochStart, p) ==
    IF cur.Timestamp > prev.Timestamp + p.TargetTimePerBlock * 2
    THEN p.PowLimitBits
    ELSE epochStart.Bits

\* NotNewEpoch that takes a header exactly 2*TargetTimePerBlock late for slow
NotNewEpochAtLeast(prev, cur, epochStart, p) ==
    IF p.ReduceMinDifficulty
       /\ cur.Timestamp >= prev.Timestamp + p.TargetTimePerBlock * 2
    THEN p.PowLimitBits
    ELSE epochStart.Bits

\* the branch of a height that starts no epoch
NotNewEpoch(prev, cur, epochStart, p) ==
    IF p.ReduceMinDifficulty
       /\ cur.Timestamp > prev.Timestamp + p.TargetTimePerBlock * 2
    THEN p.PowLimitBits
    ELSE epochStart.Bits

BTCDiff(r, height, sh, p) ==
    LET h == ReadHeaders(r, height, sh, p)
    IN  IF h.err # "nil" THEN Failed(h.err, h.io)
        ELSE IF GoMod(height, EpochLength(p)) = 0
        THEN Result(calcDiffAdjustBitcoin(h.epochStart, h.prev, p), "nil", h.io)
        ELSE Result(NotNewEpoch(h.prev, h.cur, h.epochStart, p), "nil", h.io)

\* the offset LTCDiff seeks to for the epoch start of a new epoch
LTCEpochStartOffset(height, sh, p) ==
    IF height = EpochLength(p) THEN 0 ELSE (height - sh) - EpochLength(p)

\* LTCDiff that seeks the epoch start again at every height
LTCDiffReseekAlways(r, height, sh, p) ==
    LET h == ReadHeaders(r, height, sh, p)
        epochStart == SeekRead(r, LTCEpochStartOffset(height, sh, p))
    IN  IF h.err # "nil" THEN Failed(h.err, h.io)
        ELSE IF epochStart.err # "nil"
        THEN Failed(epochStart.err, h.io \o epochStart.io)
        ELSE IF GoMod(height, EpochLength(p)) = 0
        THEN Result(calcDiffAdjustBitcoin(epochStart, h.prev, p), "nil",
                    h.io \o epochStart.io)
        ELSE Result(NotNewEpoch(h.prev, h.cur, epochStart, p), "nil",
                    h.io \o epochStart.io)

LTCDiff(r, height, sh, p) ==
    LET h == ReadHeaders(r, height, sh, p)
        epochStart == SeekRead(r, LTCEpochStartOffset(height, sh, p))
    IN  IF h.err # "nil" THEN Failed(h.err, h.io)
        ELSE IF GoMod(height, EpochLength(p)) = 0
        THEN IF epochStart.err # "nil"
             THEN Failed(epochStart.err, h.io \o epochStart.io)
             ELSE Result(calcDiffAdjustBitcoin(epochStart, h.prev, p), "nil",
                         h.io \o epochStart.io)
        ELSE Result(NotNewEpoch(h.prev, h.cur, h.epochStart, p), "nil", h.io)

(***************************************************************************)
(* Algorithm D: calcDiffAdjustKGW (Kimoto Gravity Well)                    *)
(***************************************************************************)
minBlocks == 144

maxBlocks == 4032

\* KGWFloor that asks for one block less
KGWFloorShort(height) == height < minBlocks

\* too little history: the well is not run
KGWFloor(height) == height - 1 < minBlocks

BigLess(x, y) == Cmp(x, y) < 0

\* the test of the event horizon after blocksScanned >= minBlocks blocks,
\* rateAdjustmentRatio being targetRate / actualRate (1 when either is 0):
\*   ratio <= 1 / deviation  or  ratio >= deviation,
\*   deviation = 1 + 0.7084 * (blocksScanned / minBlocks) ^ (-1.228).
\* With x = minBlocks / blocksScanned <= 1 the power x ^ 1.228 lies between
\* x * x and x; the test is "break" or "continue" where both bounds agree
\* (always at blocksScanned = minBlocks) and "undetermined" in between.
EventHorizon(blocksScanned, targetRate, actualRate) ==
    IF actualRate = 0 \/ targetRate = 0 \/ actualRate = targetRate
    THEN "continue"
    ELSE LET t    == NewInt(targetRate)
             a    == NewInt(actualRate)
             bs   == NewInt(blocksScanned)
             one  == Mul(NewInt(10000), bs)
             oneSq == Mul(one, bs)
             devHi == Add(one, NewInt(7084 * minBlocks))
             devLo == Add(oneSq, NewInt(7084 * minBlocks * minBlocks))
         IN  IF \/ ~BigLess(Mul(t, one), Mul(a, devHi))
                \/ ~BigLess(Mul(a, one), Mul(t, devHi))
             THEN "break"
             ELSE IF /\ BigLess(Mul(t, oneSq), Mul(a, devLo))
                     /\ BigLess(Mul(a, oneSq), Mul(t, devLo))
             THEN "continue"
             ELSE "undetermined"

\* ScanEnough that is content with one block less
ScanEnoughEarly(blocksScanned) == blocksScanned >= minBlocks - 1

\* the event horizon is looked at once minBlocks blocks are scanned
ScanEnough(blocksScanned) == blocksScanned >= minBlocks

\* the variables of the scan before its first pass
KGWStart(height, currentBlock) ==
    [i |-> 1, currentHeight |-> height - 1, blocksScanned |-> 0,
     difficultyAverage |-> NewInt(0), actualRate |-> 0, targetRate |-> 0,
     currentBlock |-> currentBlock, done |-> FALSE, err |-> "nil", io |-> <<>>]

\* one pass of the loop of the scan, from its test to the read of the
\* next header; done when the loop is left or the call returns
KGWStep(r, sh, p, lastSolved, st) ==
    IF st.currentHeight = 1 \/ st.i > maxBlocks
    THEN [st EXCEPT !.done = TRUE]
    ELSE LET blocksScanned == st.blocksScanned + 1
             compact == CompactToBig(st.currentBlock.Bits)
             difficultyAverage ==
                 IF st.i = 1 THEN compact
                 ELSE Add(Div(Sub(compact, st.difficultyAverage), st.i),
                          st.difficultyAverage)
             rate == lastSolved.Timestamp - st.currentBlock.Timestamp
             actualRate == IF rate < 0 THEN 0 ELSE rate
             targetRate == p.TargetTimePerBlock * blocksScanned
             currentHeight == st.currentHeight - 1
             scanned == [st EXCEPT !.blocksScanned = blocksScanned,
                                   !.difficultyAverage = difficultyAverage,
                                   !.actualRate = actualRate,
                                   !.targetRate = targetRate]
         IN  The({
               IF horizon = "undetermined"
               THEN [scanned EXCEPT !.done = TRUE, !.err = "undetermined"]
               ELSE IF horizon = "break" \/ st.currentHeight < 1
               THEN [scanned EXCEPT !.done = TRUE]
               ELSE The({
                      IF next.err # "nil"
                      THEN [scanned EXCEPT !.done = TRUE, !.err = next.err,
                                           !.currentHeight = currentHeight,
                                           !.io = st.io \o next.io]
                      ELSE [scanned EXCEPT !.i = st.i + 1,
                                           !.currentHeight = currentHeight,
                                           !.currentBlock = next,
                                           !.io = st.io \o next.io] :
                      next \in {SeekRead(r, Mul80(currentHeight - sh))}}) :
               horizon \in {IF ScanEnough(blocksScanned)
                            THEN EventHorizon(blocksScanned, targetRate,
                                              actualRate)
                            ELSE "continue"}})

\* the passes lo..hi of the loop, starting from st with no io yet
RECURSIVE KGWScan(_, _, _, _, _, _, _)
KGWScan(r, sh, p, lastSolved, st, lo, hi) ==
    IF st.done THEN st
    ELSE IF lo = hi THEN KGWStep(r, sh, p, lastSolved, st)
    ELSE The({The({[right EXCEPT !.io = left.io \o right.io] :
                   right \in {KGWScan(r, sh, p, lastSolved,
                                      [left EXCEPT !.io = <<>>],
                                      ((lo + hi) \div 2) + 1, hi)}}) :
              left \in {KGWScan(r, sh, p, lastSolved, st,
                                lo, (lo + hi) \div 2)}})

\* KGWTarget without the scaling by the rates
KGWTargetUnscaled(st) == st.difficultyAverage

\* the target after the scan, before the clip to the PoW limit
KGWTarget(st) ==
    IF st.actualRate # 0 /\ st.targetRate # 0
    THEN Div(Mul(st.difficultyAverage, NewInt(st.actualRate)), st.targetRate)
    ELSE st.difficultyAverage

\* the result of a scan that began with the header first; scanned is
\* blocksScanned when the call returns
KGWResult(st, first, p) ==
    IF st.err # "nil" THEN Failed(st.err, first.io \o st.io)
    ELSE The({Result(BigToCompact(IF Cmp(newTarget, p.PowLimit) = 1
                                  THEN p.PowLimit ELSE newTarget),
                     "nil", first.io \o st.io)
              @@ [scanned |-> st.blocksScanned] :
              newTarget \in {KGWTarget(st)}})

calcDiffAdjustKGW(r, height, sh, p) ==
    IF KGWFloor(height) THEN Result(p.PowLimitBits, "nil", <<>>)
    ELSE The({IF first.err # "nil" THEN Failed(first.err, first.io)
              ELSE The({KGWResult(st, first, p) :
                        st \in {KGWScan(r, sh, p, first,
                                        KGWStart(height, first),
                                        1, maxBlocks + 1)}}) :
              first \in {SeekRead(r, Mul80(height - sh - 1))}})

(***************************************************************************)
(* The test network's resolver: VTCTestDiff                                *)
(***************************************************************************)
\* VTCTestDiff that runs the gravity well off the multiples of 12
VTCTestDiffOffTwelve(r, height, sh, p) ==
    IF height < 2116 THEN LTCDiff(r, height, sh, p)
    ELSE IF GoMod(height, 12) = 0
    THEN LET prev == SeekRead(r, Mul80(height - sh - 1))
         IN  IF prev.err # "nil" THEN Failed(prev.err, prev.io)
             ELSE Result(prev.Bits, "nil", prev.io)
    ELSE calcDiffAdjustKGW(r, height, sh, p)

VTCTestDiff(r, height, sh, p) ==
    IF height < 2116 THEN LTCDiff(r, height, sh, p)
    ELSE IF GoMod(height, 12) # 0
    THEN LET prev == SeekRead(r, Mul80(height - sh - 1))
         IN  IF prev.err # "nil" THEN Failed(prev.err, prev.io)
             ELSE Result(prev.Bits, "nil", prev.io)
    ELSE calcDiffAdjustKGW(r, height, sh, p)

(***************************************************************************)
(* Bounds and input sets                                                   *)
(***************************************************************************)
\* headers appended to a file
MaxAppend == 2

\* (first height, number of headers) of the files at the start: ending just
\* below the first and the second epoch boundary, a short file that lacks
\* its epoch start, a file that starts at an epoch boundary
Families ==
    {[start |-> 0, len |-> 2015], [start |-> 2000, len |-> 2031],
     [start |-> 2010, len |-> 5], [start |-> 2016, len |-> 1]}

\* (bits of the headers that start an epoch, bits of the other headers,
\* byte that fills the hashes)
Contents(p) ==
    {<<p.PowLimitBits, p.PowLimitBits, 29>>,
     <<Compact(27, 4194240), Compact(28, 1048575), 29>>,
     <<Compact(1, 65536), Compact(1, 65536), 0>>}

Bases(p) ==
    {[start |-> f.start, len |-> f.len, spacing |-> p.TargetTimePerBlock,
      epoch |-> EpochLength(p), epochBits |-> c[1], bits |-> c[2],
      fill |-> c[3]] : f \in Families, c \in Contents(p)}

\* seconds between an appended header and the header before it
AppendDeltas(p) ==
    {-1, p.TargetTimePerBlock, 2 * p.TargetTimePerBlock,
     2 * p.TargetTimePerBlock + 1}

File == [base |-> base, tail |-> tail]

Tip == base.start + StoreLen(File) - 1

\* a call is made for the heights around the tip, one past it included
CallHeights == (Tip - 2)..(Tip + 1)

\* start bits and timestamps of a direct call of algorithm A
AdjustExponents == {0, 1, 2, 3, 4, 28, 29, 30, 32, 33, 64}

AdjustMantissas ==
    {0, 1, 65536, 196608, 262144, 1048575, 8388607, 8388609, 9437183, 16777215}

AdjustDeltas(p) ==
    {-BaseTime, -1, 0, 1, p.TargetTimespan \div p.RetargetAdjustmentFactor,
     p.TargetTimespan \div 2, p.TargetTimespan,
     p.TargetTimespan * p.RetargetAdjustmentFactor, 700000000}

(***************************************************************************)
(* State machine                                                           *)
(***************************************************************************)
regVars == <<registry, last, procs>>

diffVars == <<net, startheight, base, tail, call, adj>>

\* no Register call has been made since the package was initialized
NoRegister == [op |-> "none"]

Goroutines == {1, 2}

Idle == [pc |-> "idle"]

RegistryIdle ==
    /\ registry = init
    /\ last = NoRegister
    /\ procs = [g \in Goroutines |-> Idle]

NoCall == [fn |-> "none", height |-> 0] @@ Failed("nil", <<>>)

NoAdj ==
    [done |-> FALSE, start |-> [Timestamp |-> 0, Bits |-> Compact(0, 0)],
     end |-> [Timestamp |-> 0, Bits |-> Compact(0, 0)], bits |-> Compact(0, 0)]

Init ==
    /\ net \in NetNames
    /\ base \in Bases(Params(net))
    /\ startheight = base.start
    /\ tail = <<>>
    /\ call = NoCall
    /\ adj = NoAdj
    /\ RegistryIdle

\* a header arrives and is written at the end of the file
AppendHeader ==
    /\ Len(tail) < MaxAppend
    /\ \E dt \in AppendDeltas(Params(net)) :
            tail' = Append(tail,
                MkHeader(StoreHeader(File, StoreLen(File) - 1).Timestamp + dt,
                         base.bits, base.fill))
    /\ call' = NoCall
    /\ UNCHANGED <<net, startheight, base, adj>>
    /\ UNCHANGED regVars

CallBTCDiff ==
    /\ call = NoCall
    /\ \E h \in CallHeights :
         call' = [fn |-> "BTCDiff", height |-> h]
                 @@ BTCDiff(File, h, startheight, Params(net))
    /\ UNCHANGED <<net, startheight, base, tail, adj>>
    /\ UNCHANGED regVars

CallLTCDiff ==
    /\ call = NoCall
    /\ \E h \in CallHeights :
         call' = [fn |-> "LTCDiff", height |-> h]
                 @@ LTCDiff(File, h, startheight, Params(net))
    /\ UNCHANGED <<net, startheight, base, tail, adj>>
    /\ UNCHANGED regVars

Next == AppendHeader \/ CallBTCDiff \/ CallLTCDiff

Spec == Init /\ [][Next]_vars

\* algorithm A called directly on two headers
InitAdjust ==
    /\ net \in NetNames
    /\ base = [start |-> 0, len |-> 0, spacing |-> 0, epoch |-> 1,
               epochBits |-> Compact(0, 0), bits |-> Compact(0, 0), fill |-> 0]
    /\ startheight = 0
    /\ tail = <<>>
    /\ call = NoCall
    /\ adj = NoAdj
    /\ RegistryIdle

CallAdjust ==
    /\ adj = NoAdj
    /\ \E e \in AdjustExponents, m \in AdjustMantissas,
          d \in AdjustDeltas(Params(net)) :
         LET start == [Timestamp |-> BaseTime, Bits |-> Compact(e, m)]
             end   == [Timestamp |-> BaseTime + d, Bits |-> Compact(e, m)]
         IN  adj' = [done |-> TRUE, start |-> start, end |-> end,
                     bits |-> calcDiffAdjustBitcoin(start, end, Params(net))]
    /\ UNCHANGED <<net, startheight, base, tail, call>>
    /\ UNCHANGED regVars

NextAdjust == CallAdjust

SpecAdjust == InitAdjust /\ [][NextAdjust]_vars

\* the files of the calls of the gravity well and of the test network's
\* resolver, with the heights they are called for: a file from the genesis
\* header that ends just above minBlocks, a file that starts too late for a
\* scan of minBlocks headers, files around the heights 2116 and 2400 where
\* VTCTestDiff changes its rule, and a file longer than maxBlocks
KGWFamilies ==
    {[start |-> 0, len |-> 150, kgw |-> {143, 144, 145, 150, 151},
      vtc |-> {144, 150}],
     [start |-> 100, len |-> 60, kgw |-> {100, 144, 160, 161},
      vtc |-> {160}],
     [start |-> 1960, len |-> 240, kgw |-> {2124, 2199, 2200},
      vtc |-> {2016, 2115, 2116, 2124, 2160}],
     [start |-> 2250, len |-> 151, kgw |-> {2400},
      vtc |-> {2400, 2401, 2402}]}

LongFamily ==
    [start |-> 0, len |-> maxBlocks + 12, kgw |-> {4033, 4034, 4044},
     vtc |-> {4044}]

\* a file whose last headers arrived on time after a long pause: len headers
\* appended to the GapFamily.len headers of the start, the first of them
\* gap block times after the header before it
GapFamily ==
    [start |-> 0, len |-> 100, kgw |-> {245, 260, 300, 301}, vtc |-> {300}]

GapTail == [len |-> 200, gap |-> 300, period |-> 7]

\* every StripePeriod-th header of a file carries the other bits
StripePeriod == 50

KGWContents(p) ==
    {<<Compact(28, 1048575), Compact(28, 1048575), 29>>,
     <<Compact(27, 4194240), Compact(28, 1048575), 29>>,
     <<p.PowLimitBits, p.PowLimitBits, 0>>}

KGWSpacings(p) == {0, p.TargetTimePerBlock, 2 * p.TargetTimePerBlock}

KGWNets == {"testnet3", "regtest"}

KGWBases(p) ==
    {[start |-> f.start, len |-> f.len, spacing |-> sp,
      epoch |-> StripePeriod, epochBits |-> c[1], bits |-> c[2],
      fill |-> c[3]] :
        f \in KGWFamilies, c \in KGWContents(p), sp \in KGWSpacings(p)}
    \cup {[start |-> LongFamily.start, len |-> LongFamily.len, spacing |-> 0,
           epoch |-> StripePeriod, epochBits |-> Compact(28, 1048575),
           bits |-> Compact(28, 1048575), fill |-> 29] : n \in {p.Name} \cap {"testnet3"}}
    \cup {[start |-> GapFamily.start, len |-> GapFamily.len,
           spacing |-> p.TargetTimePerBlock, epoch |-> StripePeriod,
           epochBits |-> c[1], bits |-> c[2], fill |-> c[3]] :
             c \in KGWContents(p)}

\* the headers appended to the file b before the calls: none, but for the
\* file of the GapFamily, where every GapTail.period-th carries the other bits
KGWTail(b, p) ==
    IF b.start = GapFamily.start /\ b.len = GapFamily.len
    THEN [i \in 1..GapTail.len |->
            MkHeader(BaseTime + (b.len - 1) * b.spacing
                       + (GapTail.gap + i - 1) * p.TargetTimePerBlock,
                     IF i % GapTail.period = 0 THEN b.epochBits ELSE b.bits,
                     b.fill)]
    ELSE <<>>

\* the family of the file at hand
Family ==
    CHOOSE f \in KGWFamilies \cup {LongFamily, GapFamily} :
        f.start = base.start /\ f.len = base.len

InitKGW ==
    /\ net \in KGWNets
    /\ base \in KGWBases(Params(net))
    /\ startheight = base.start
    /\ tail = KGWTail(base, Params(net))
    /\ call = NoCall
    /\ adj = NoAdj
    /\ RegistryIdle

CallKGW ==
    /\ call = NoCall
    /\ \E h \in Family.kgw :
         call' = [fn |-> "calcDiffAdjustKGW", height |-> h]
                 @@ calcDiffAdjustKGW(File, h, startheight, Params(net))
    /\ UNCHANGED <<net, startheight, base, tail, adj>>
    /\ UNCHANGED regVars

CallVTCTestDiff ==
    /\ call = NoCall
    /\ \E h \in Family.vtc :
         call' = [fn |-> "VTCTestDiff", height |-> h]
                 @@ VTCTestDiff(File, h, startheight, Params(net))
    /\ UNCHANGED <<net, startheight, base, tail, adj>>
    /\ UNCHANGED regVars

NextKGW == CallKGW \/ CallVTCTestDiff \/ CallBTCDiff \/ CallLTCDiff

SpecKGW == InitKGW /\ [][NextKGW]_vars

(***************************************************************************)
(* Register called by a program, one call after the other                  *)
(***************************************************************************)
\* networks of a program's own: a new network, the same network with other
\* identifiers, a second new network, and a network that takes the main
\* network's Net with identifiers of its own
CustomParams ==
    {[Net |-> "CustomNet1", Bech32HRPSegwit |-> <<"l", "t", "c">>,
     PubKeyHashAddrID |-> 48,
      ScriptHashAddrID |-> 50, HDPrivateKeyID |-> <<1, 2, 3, 4>>,
      HDPublicKeyID |-> <<5, 6, 7, 8>>],
     [Net |-> "CustomNet1", Bech32HRPSegwit |-> <<"t", "l", "t", "c">>,
     PubKeyHashAddrID |-> 49,
      ScriptHashAddrID |-> 51, HDPrivateKeyID |-> <<1, 2, 3, 4>>,
      HDPublicKeyID |-> <<8, 7, 6, 5>>],
     [Net |-> "CustomNet2", Bech32HRPSegwit |-> <<"b", "c">>,
     PubKeyHashAddrID |-> 0,
      ScriptHashAddrID |-> 5, HDPrivateKeyID |-> <<4, 136, 173, 228>>,
      HDPublicKeyID |-> <<4, 136, 178, 30>>],
     [Net |-> "MainNet", Bech32HRPSegwit |-> <<"x", "x">>,
     PubKeyHashAddrID |-> 1,
      ScriptHashAddrID |-> 2, HDPrivateKeyID |-> <<4, 136, 173, 228>>,
      HDPublicKeyID |-> <<9, 9, 9, 9>>]}

RegisterParams == Networks \cup CustomParams

NoDiff ==
    /\ net = "mainnet"
    /\ base = [start |-> 0, len |-> 0, spacing |-> 0, epoch |-> 1,
               epochBits |-> Compact(0, 0), bits |-> Compact(0, 0), fill |-> 0]
    /\ startheight = 0
    /\ tail = <<>>
    /\ call = NoCall
    /\ adj = NoAdj

InitRegistry == NoDiff /\ RegistryIdle

CallRegister ==
    /\ \E params \in RegisterParams :
         /\ registry' = Register(registry, params).registry
         /\ last' = [op |-> "Register", params |-> params,
                     err |-> Register(registry, params).err,
                     before |-> registry]
    /\ UNCHANGED procs
    /\ UNCHANGED diffVars

NextRegistry == CallRegister

SpecRegistry == InitRegistry /\ [][NextRegistry]_vars

(***************************************************************************)
(* Register called by two goroutines at once; the maps have no lock        *)
(***************************************************************************)
RaceParams ==
    {params \in RegisterParams : params.Net \in {"CustomNet1", "SigNet", "MainNet"}}

\* the map a goroutine at pc is about to read or write
MapAt(pc) ==
    CASE pc \in {"check", "registeredNets"} -> "registeredNets"
      [] pc = "pubKeyHashAddrIDs" -> "pubKeyHashAddrIDs"
      [] pc = "scriptHashAddrIDs" -> "scriptHashAddrIDs"
      [] pc = "hdPrivToPubKeyIDs" -> "hdPrivToPubKeyIDs"
      [] pc = "bech32SegwitPrefixes" -> "bech32SegwitPrefixes"
      [] OTHER -> "none"

Writes(pc) == MapAt(pc) # "none" /\ pc # "check"

\* a goroutine calls Register(params)
Start(g) ==
    /\ procs[g].pc = "idle"
    /\ \E params \in RaceParams :
         procs' = [procs EXCEPT ![g] = [pc |-> "check", params |-> params]]
    /\ UNCHANGED <<registry, last>>
    /\ UNCHANGED diffVars

\* if _, ok := registeredNets[params.Net]; ok { return ErrDuplicateNet }
Check(g) ==
    /\ procs[g].pc = "check"
    /\ procs' = [procs EXCEPT ![g] =
                   IF procs[g].params.Net \in registry.registeredNets
                   THEN [pc |-> "done", params |-> procs[g].params,
                         err |-> "ErrDuplicateNet"]
                   ELSE [@ EXCEPT !.pc = "registeredNets"]]
    /\ UNCHANGED <<registry, last>>
    /\ UNCHANGED diffVars

\* one of the statements that write a map, in the order of the code; the
\* last one returns nil
Insert(g) ==
    /\ Writes(procs[g].pc)
    /\ LET params == procs[g].params
           pc == procs[g].pc
           hd == RegisterHDKeyID(registry, params.HDPublicKeyID,
                                 params.HDPrivateKeyID)
       IN  /\ registry' =
                CASE pc = "registeredNets" ->
                       [registry EXCEPT !.registeredNets = @ \cup {params.Net}]
                  [] pc = "pubKeyHashAddrIDs" ->
                       [registry EXCEPT !.pubKeyHashAddrIDs =
                            @ \cup {params.PubKeyHashAddrID}]
                  [] pc = "scriptHashAddrIDs" ->
                       [registry EXCEPT !.scriptHashAddrIDs =
                            @ \cup {params.ScriptHashAddrID}]
                  [] pc = "hdPrivToPubKeyIDs" -> hd.registry
                  [] pc = "bech32SegwitPrefixes" ->
                       [registry EXCEPT !.bech32SegwitPrefixes =
                            @ \cup {params.Bech32HRPSegwit \o <<"1">>}]
           /\ procs' = [procs EXCEPT ![g] =
                CASE pc = "registeredNets" -> [@ EXCEPT !.pc = "pubKeyHashAddrIDs"]
                  [] pc = "pubKeyHashAddrIDs" -> [@ EXCEPT !.pc = "scriptHashAddrIDs"]
                  [] pc = "scriptHashAddrIDs" -> [@ EXCEPT !.pc = "hdPrivToPubKeyIDs"]
                  [] pc = "hdPrivToPubKeyIDs" ->
                       IF hd.err # "nil"
                       THEN [pc |-> "done", params |-> params, err |-> hd.err]
                       ELSE [@ EXCEPT !.pc = "bech32SegwitPrefixes"]
                  [] pc = "bech32SegwitPrefixes" ->
                       [pc |-> "done", params |-> params, err |-> "nil"]]
    /\ UNCHANGED last
    /\ UNCHANGED diffVars

\* two goroutines are at the same map and one of them writes it: the
\* runtime may end the program ("concurrent map writes")
Fatal ==
    /\ \E g \in Goroutines, other \in Goroutines :
         /\ g # other
         /\ Writes(procs[g].pc)
         /\ MapAt(procs[other].pc) = MapAt(procs[g].pc)
    /\ procs' = [g \in Goroutines |-> [pc |-> "fatal"]]
    /\ UNCHANGED <<registry, last>>
    /\ UNCHANGED diffVars

NextRace ==
    \/ \E g \in Goroutines : Start(g) \/ Check(g) \/ Insert(g)
    \/ Fatal

SpecRace == InitRegistry /\ [][NextRace]_vars

(***************************************************************************)
(* The HD key IDs: RegisterHDKeyID, HDPrivateKeyToPublicKeyID, Register    *)
(***************************************************************************)
\* registrations a run makes after the package's own
MaxHDCalls == 3

\* byte slices a program passes as IDs: of 4 bytes, shorter, longer, empty;
\* <<1, 2, 3, 0>> is what <<1, 2, 3>> becomes in a [4]byte
HDPrivateKeyIDs ==
    {<<1, 2, 3, 4>>, <<1, 2, 3, 0>>, MainNetParams.HDPrivateKeyID,
     <<1, 2, 3>>, <<1, 2, 3, 4, 5>>, <<>>}

HDPublicKeyIDs == {<<5, 6, 7, 8>>, <<8, 7, 6, 5>>, <<5, 6, 7>>, <<5, 6, 7, 8, 9>>}

\* the pairs the package registers when it is initialized, in order
initHDKeyIDs ==
    [i \in 1..4 |->
       LET params == <<MainNetParams, TestNet3Params, RegressionNetParams,
                       SimNetParams>>[i]
       IN  [priv |-> params.HDPrivateKeyID, pub |-> params.HDPublicKeyID]]

\* last.hist lists the (private, public) pairs of the registrations that
\* returned nil, the oldest first
InitHD ==
    /\ NoDiff
    /\ registry = init
    /\ procs = [g \in Goroutines |-> Idle]
    /\ last = [op |-> "none", hist |-> initHDKeyIDs]

CallRegisterHDKeyID ==
    /\ Len(last.hist) < Len(initHDKeyIDs) + MaxHDCalls
    /\ \E pub \in HDPublicKeyIDs, priv \in HDPrivateKeyIDs :
         LET ret == RegisterHDKeyID(registry, pub, priv)
         IN  /\ registry' = ret.registry
             /\ last' = [op |-> "RegisterHDKeyID", pub |-> pub, priv |-> priv,
                         err |-> ret.err, before |-> registry,
                         hist |-> IF ret.err = "nil"
                                  THEN Append(last.hist,
                                              [priv |-> priv, pub |-> pub])
                                  ELSE last.hist]
    /\ UNCHANGED procs
    /\ UNCHANGED diffVars

\* Register of a network: its pair of HD key IDs is registered with it
CallRegisterNet ==
    /\ Len(last.hist) < Len(initHDKeyIDs) + MaxHDCalls
    /\ \E params \in CustomParams :
         LET ret == Register(registry, params)
         IN  /\ registry' = ret.registry
             /\ last' = [op |-> "Register", params |-> params,
                         err |-> ret.err, before |-> registry,
                         hist |-> IF ret.err = "nil"
                                  THEN Append(last.hist,
                                              [priv |-> params.HDPrivateKeyID,
                                               pub |-> params.HDPublicKeyID])
                                  ELSE last.hist]
    /\ UNCHANGED procs
    /\ UNCHANGED diffVars

CallHDPrivateKeyToPublicKeyID ==
    /\ \E id \in HDPrivateKeyIDs :
         LET ret == HDPrivateKeyToPublicKeyID(registry, id)
         IN  last' = [op |-> "HDPrivateKeyToPublicKeyID", id |-> id,
                      pub |-> ret.pub, err |-> ret.err, before |-> registry,
                      hist |-> last.hist]
    /\ UNCHANGED <<registry, procs>>
    /\ UNCHANGED diffVars

NextHD == CallRegisterHDKeyID \/ CallRegisterNet \/ CallHDPrivateKeyToPublicKeyID

SpecHD == InitHD /\ [][NextHD]_vars

(***************************************************************************)
(* The lookups of the registry between Register calls                      *)
(***************************************************************************)
\* a program's networks, one of them with a human-readable part in upper
\* case and one in mixed case
LookupParams ==
    CustomParams
    \cup {[Net |-> "CustomNet3", Bech32HRPSegwit |-> <<"L", "T", "C">>,
           PubKeyHashAddrID |-> 48, ScriptHashAddrID |-> 52,
           HDPrivateKeyID |-> <<1, 2, 3, 4>>,
           HDPublicKeyID |-> <<5, 6, 7, 8>>],
          [Net |-> "CustomNet4", Bech32HRPSegwit |-> <<"t", "B">>,
           PubKeyHashAddrID |-> 111, ScriptHashAddrID |-> 196,
           HDPrivateKeyID |-> <<1, 2, 3, 4>>,
           HDPublicKeyID |-> <<5, 6, 7, 8>>]}

\* the networks init registers
initNetworks ==
    {MainNetParams, TestNet3Params, RegressionNetParams, SimNetParams}

\* identifiers asked for: those of the networks, registered or not, and two
\* of no network
AddrIDs ==
    {params.PubKeyHashAddrID : params \in Networks \cup LookupParams}
    \cup {params.ScriptHashAddrID : params \in Networks \cup LookupParams}
    \cup {7, 255}

\* s with the letters at the positions upper in upper case, the others in
\* lower case
WithCase(s, upper) ==
    [i \in 1..Len(s) |->
       IF i \in upper /\ \E k \in 1..Len(LowerLetters) :
                           LowerLetters[k] = ToLower(s)[i]
       THEN UpperLetters[CHOOSE k \in 1..Len(LowerLetters) :
                            LowerLetters[k] = ToLower(s)[i]]
       ELSE ToLower(s)[i]]

CaseVariants(s) == {WithCase(s, upper) : upper \in SUBSET (1..Len(s))}

\* prefixes asked for: every spelling of the prefixes of the main network
\* and of the program's networks whose human-readable part has upper-case
\* letters, and the bare human-readable parts
Prefixes ==
    UNION {CaseVariants(params.Bech32HRPSegwit \o <<"1">>) :
             params \in {MainNetParams}
                        \cup {c \in LookupParams :
                                ToLower(c.Bech32HRPSegwit) # c.Bech32HRPSegwit}}
    \cup {params.Bech32HRPSegwit : params \in LookupParams}

\* last.registered holds the Params of the Register calls that returned nil
InitLookup ==
    /\ NoDiff
    /\ registry = init
    /\ procs = [g \in Goroutines |-> Idle]
    /\ last = [op |-> "none", registered |-> initNetworks]

CallRegisterParams ==
    /\ \E params \in LookupParams \cup {SigNetParams, MainNetParams} :
         LET ret == Register(registry, params)
         IN  /\ registry' = ret.registry
             /\ last' = [op |-> "Register", params |-> params,
                         err |-> ret.err,
                         registered |-> IF ret.err = "nil"
                                        THEN last.registered \cup {params}
                                        ELSE last.registered]
    /\ UNCHANGED procs
    /\ UNCHANGED diffVars

CallIsPubKeyHashAddrID ==
    /\ \E id \in AddrIDs :
         last' = [op |-> "IsPubKeyHashAddrID", id |-> id,
                  ok |-> IsPubKeyHashAddrID(registry, id),
                  registered |-> last.registered]
    /\ UNCHANGED <<registry, procs>>
    /\ UNCHANGED diffVars

CallIsScriptHashAddrID ==
    /\ \E id \in AddrIDs :
         last' = [op |-> "IsScriptHashAddrID", id |-> id,
                  ok |-> IsScriptHashAddrID(registry, id),
                  registered |-> last.registered]
    /\ UNCHANGED <<registry, procs>>
    /\ UNCHANGED diffVars

CallIsBech32SegwitPrefix ==
    /\ \E prefix \in Prefixes :
         last' = [op |-> "IsBech32SegwitPrefix", prefix |-> prefix,
                  ok |-> IsBech32SegwitPrefix(registry, prefix),
                  registered |-> last.registered]
    /\ UNCHANGED <<registry, procs>>
    /\ UNCHANGED diffVars

NextLookup ==
    \/ CallRegisterParams
    \/ CallIsPubKeyHashAddrID
    \/ CallIsScriptHashAddrID
    \/ CallIsBech32SegwitPrefix

SpecLookup == InitLookup /\ [][NextLookup]_vars

(***************************************************************************)
(* Calls for heights far above the file: the offsets of the seeks          *)
(***************************************************************************)
\* the largest int32, the type of height and startheight
MaxInt32 == 2147483647

\* numbers of the header before the height of a call: the first headers,
\* the last one whose offset fits in an int32, the one after it, one
\* whose offset wraps to 64, and one near the largest height
FarIndexes ==
    {0, 1, 2015, MaxInt32 \div HeaderSize, MaxInt32 \div HeaderSize + 1,
     2 * (MaxInt32 \div HeaderSize) + 2, MaxInt32 - 5000}

\* the gravity well is called where its first seek or read fails
FarIndexesKGW == {MaxInt32 \div HeaderSize, MaxInt32 \div HeaderSize + 1}

CallBTCDiffFar ==
    /\ call = NoCall
    /\ \E k \in FarIndexes :
         call' = [fn |-> "BTCDiff", height |-> startheight + k + 1]
                 @@ BTCDiff(File, startheight + k + 1, startheight, Params(net))
    /\ UNCHANGED <<net, startheight, base, tail, adj>>
    /\ UNCHANGED regVars

CallLTCDiffFar ==
    /\ call = NoCall
    /\ \E k \in FarIndexes :
         call' = [fn |-> "LTCDiff", height |-> startheight + k + 1]
                 @@ LTCDiff(File, startheight + k + 1, startheight, Params(net))
    /\ UNCHANGED <<net, startheight, base, tail, adj>>
    /\ UNCHANGED regVars

CallKGWFar ==
    /\ call = NoCall
    /\ \E k \in FarIndexesKGW :
         call' = [fn |-> "calcDiffAdjustKGW", height |-> startheight + k + 1]
                 @@ calcDiffAdjustKGW(File, startheight + k + 1, startheight,
                                      Params(net))
    /\ UNCHANGED <<net, startheight, base, tail, adj>>
    /\ UNCHANGED regVars

NextFar == CallBTCDiffFar \/ CallLTCDiffFar \/ CallKGWFar

SpecFar == Init /\ [][NextFar]_vars

(***************************************************************************)
(* util/btcctl: commandHandler                                             *)
(***************************************************************************)
\* a []conversionHandler: nil, or the handlers ("toInt", or "nil" for none)
NilHandlers == [isNil |-> TRUE, handlers |-> <<>>]

Handlers(hs) == [isNil |-> FALSE, handlers |-> hs]

handlerData(requiredArgs, optionalArgs, displayHandler, conversionHandlers) ==
    [requiredArgs |-> requiredArgs, optionalArgs |-> optionalArgs,
     displayHandler |-> displayHandler,
     conversionHandlers |-> conversionHandlers]

commandHandlers ==
    [addnode |-> handlerData(2, 0, "displaySpewDump", NilHandlers),
     decoderawtransaction |-> handlerData(1, 0, "displaySpewDump", NilHandlers),
     getbestblockhash |-> handlerData(0, 0, "displayGeneric", NilHandlers),
     getblock |-> handlerData(1, 0, "displaySpewDump", NilHandlers),
     getblockcount |-> handlerData(0, 0, "displayFloat64", NilHandlers),
     getblockhash |-> handlerData(1, 0, "displayGeneric", Handlers(<<"toInt">>)),
     getconnectioncount |-> handlerData(0, 0, "displayFloat64", NilHandlers),
     getdifficulty |-> handlerData(0, 0, "displayFloat64", NilHandlers),
     getgenerate |-> handlerData(0, 0, "displayGeneric", NilHandlers),
     getpeerinfo |-> handlerData(0, 0, "displaySpewDump", NilHandlers),
     getrawmempool |-> handlerData(0, 0, "displaySpewDump", NilHandlers),
     getrawtransaction |->
         handlerData(1, 1, "displaySpewDump", Handlers(<<"nil", "toInt">>)),
     stop |-> handlerData(0, 0, "displayGeneric", NilHandlers)]

Digits == <<"0", "1", "2", "3", "4", "5", "6", "7", "8", "9">>

IsDigit(c) == \E d \in 1..Len(Digits) : Digits[d] = c

DigitValue(c) == (CHOOSE d \in 1..Len(Digits) : Digits[d] = c) - 1

RECURSIVE DigitsValue(_)
DigitsValue(s) ==
    IF s = <<>> THEN 0
    ELSE 10 * DigitsValue(SubSeq(s, 1, Len(s) - 1)) + DigitValue(s[Len(s)])

\* strconv.Atoi of a string of a few characters: an optional sign and
\* decimal digits, at least one
Atoi(val) ==
    LET signed == val # <<>> /\ val[1] \in {"+", "-"}
        digits == IF signed THEN Tail(val) ELSE val
    IN  IF digits = <<>> \/ \E i \in 1..Len(digits) : ~IsDigit(digits[i])
        THEN [err |-> "strconv.Atoi: invalid syntax", idx |-> 0]
        ELSE [err |-> "nil",
              idx |-> IF signed /\ val[1] = "-" THEN -DigitsValue(digits)
                      ELSE DigitsValue(digits)]

StringArg(s) == [type |-> "string", string |-> s]

IntArg(n) == [type |-> "int", int |-> n]

\* toInt
toInt(val) ==
    LET a == Atoi(val)
    IN  IF a.err # "nil" THEN [err |-> a.err, arg |-> StringArg(<<>>)]
        ELSE [err |-> "nil", arg |-> IntArg(a.idx)]

\* what commandHandler does: it returns err, or it panics; sent is whether
\* the JSON-RPC command went out, iargs what went with it
Handled(err, panic, sent, iargs) ==
    [err |-> err, panic |-> panic, sent |-> sent, iargs |-> iargs]

\* the loop over iargs from index i (from 1), iargs holding the arguments
\* converted so far: convHandlers[i] is an index out of range when the
\* handlers are fewer than i, as they are when convHandlers is nil
RECURSIVE Convert(_, _, _, _)
Convert(convHandlers, args, iargs, i) ==
    IF i > Len(args) THEN Handled("nil", FALSE, FALSE, iargs)
    ELSE IF i > Len(convHandlers.handlers)
    THEN Handled("nil", TRUE, FALSE, iargs)
    ELSE IF convHandlers.handlers[i] = "nil"
    THEN Convert(convHandlers, args, iargs, i + 1)
    ELSE LET c == toInt(args[i])
         IN  IF c.err # "nil" THEN Handled(c.err, FALSE, FALSE, iargs)
             ELSE Convert(convHandlers, args, [iargs EXCEPT ![i] = c.arg],
                          i + 1)

\* the display handler on the reply
Display(displayHandler, reply) ==
    IF displayHandler = "displayFloat64" /\ reply.type # "float64"
    THEN "reply type is not a float64"
    ELSE "nil"

\* reply is what sendCommand comes back with
commandHandler(command, data, args, reply) ==
    LET convHandlers == data.conversionHandlers
        iargs == [i \in 1..Len(args) |-> StringArg(args[i])]
        conv == Convert(convHandlers, args, iargs, 1)
    IN  IF Len(args) < data.requiredArgs
        THEN Handled("ErrUsage", FALSE, FALSE, <<>>)
        ELSE IF Len(args) > data.requiredArgs + data.optionalArgs
        THEN Handled("ErrUsage", FALSE, FALSE, <<>>)
        ELSE IF ~convHandlers.isNil /\ Len(convHandlers.handlers) < Len(args)
        THEN Handled("The number of conversion handlers is invalid.",
                     FALSE, FALSE, <<>>)
        ELSE IF conv.panic \/ conv.err # "nil" THEN conv
        ELSE IF reply.err # "nil"
        THEN Handled(reply.err, FALSE, TRUE, conv.iargs)
        ELSE Handled(Display(data.displayHandler, reply), FALSE, TRUE,
                     conv.iargs)

\* arguments of the command line
MaxArgs == 3

ArgStrings == {<<"4", "2">>, <<"-", "1">>, <<"o", "n">>, <<>>}

ArgLists == UNION {[1..n -> ArgStrings] : n \in 0..MaxArgs}

\* what the server and the connection can come back with
Replies ==
    {[err |-> "RpcCommand: connection refused", type |-> "none"],
     [err |-> "RpcCommand: No data returned.", type |-> "none"],
     [err |-> "nil", type |-> "float64"],
     [err |-> "nil", type |-> "string"]}

\* main runs one command and ends
CallCommandHandler ==
    /\ last = NoRegister
    /\ \E command \in DOMAIN commandHandlers, args \in ArgLists,
          reply \in Replies :
         last' = [op |-> "commandHandler", command |-> command,
                  args |-> args, reply |-> reply]
                 @@ commandHandler(command, commandHandlers[command], args,
                                   reply)
    /\ UNCHANGED <<registry, procs>>
    /\ UNCHANGED diffVars

NextCtl == CallCommandHandler

SpecCtl == InitRegistry /\ [][NextCtl]_vars

(***************************************************************************)
(* Properties                                                              *)
(***************************************************************************)
P == Params(net)

InStore(h) == h >= base.start /\ h - base.start < StoreLen(File)

\* the header of block height h, as written to the file
HeaderAt(h) == StoreHeader(File, h - base.start)

Returned == call.fn \in {"BTCDiff", "LTCDiff"} /\ call.err = "nil"

StartsEpoch(h) == h % EpochLength(P) = 0

EpochStartOf(h) == h - (h % EpochLength(P))

\* header h is more than 2*TargetTimePerBlock after header h-1
Slow(h) ==
    HeaderAt(h).Timestamp - HeaderAt(h - 1).Timestamp > 2 * P.TargetTimePerBlock

Target(bits) == CompactToBig(bits)

\* C1: the bits of a call that returns without error decode to a target
\* that is at most Params.PowLimit.
C1_TargetAtMostPowLimit ==
    Returned => Cmp(Target(call.bits), P.PowLimit) <= 0

\* C2: the bits of a call that returns without error decode to a positive
\* target: the sign bit is clear and the mantissa is not zero.
C2_TargetPositive ==
    Returned => ~SignBit(call.bits) /\ Mantissa(call.bits) # 0

\* C3: at a height n that starts an epoch BTCDiff returns what algorithm A
\* gives for the headers at n - epochLength and n - 1.
C3_BoundaryFromEpochStart ==
    (/\ call.fn = "BTCDiff" /\ call.err = "nil"
     /\ StartsEpoch(call.height)
     /\ InStore(call.height - EpochLength(P)))
    => call.bits = calcDiffAdjustBitcoin(HeaderAt(call.height - EpochLength(P)),
                                         HeaderAt(call.height - 1), P)

\* the file holds the headers 0..epochLength, all with the same bits, each
\* TargetTimePerBlock after the one before, the bits within the PoW limit
EvenlySpaced ==
    /\ base.start = 0
    /\ StoreLen(File) = EpochLength(P) + 1
    /\ base.epochBits = base.bits
    /\ Cmp(Target(base.bits), P.PowLimit) <= 0
    /\ \A k \in 1..(StoreLen(File) - 1) :
         k >= base.len =>
           StoreHeader(File, k).Timestamp - StoreHeader(File, k - 1).Timestamp
             = P.TargetTimePerBlock

\* C4: over 2017 evenly spaced headers with the same bits, BTCDiff at the
\* first epoch boundary returns those bits.
C4_EvenSpacingKeepsBits ==
    (call.fn = "BTCDiff" /\ call.height = EpochLength(P) /\ EvenlySpaced)
    => call.err = "nil" /\ call.bits = base.bits

AdjP == Params(net)

AdjDelta == adj.end.Timestamp - adj.start.Timestamp

AdjPrevTarget == Target(adj.start.Bits)

MinBig(x, y) == IF Cmp(x, y) > 0 THEN y ELSE x

\* C5: for a timestamp difference of d seconds within the clamp, algorithm
\* A returns the compact form of min(prevTarget * d / targetTimespan, limit).
C5_ProportionalToSeconds ==
    (/\ adj.done
     /\ AdjDelta >= AdjP.TargetTimespan \div AdjP.RetargetAdjustmentFactor
     /\ AdjDelta <= AdjP.TargetTimespan * AdjP.RetargetAdjustmentFactor)
    => adj.bits =
         BigToCompact(MinBig(Div(Mul(AdjPrevTarget, NewInt(AdjDelta)),
                                 AdjP.TargetTimespan),
                             Target(AdjP.PowLimitBits)))

\* C6: algorithm A never returns bits whose target exceeds Params.PowLimit.
C6_AdjustAtMostPowLimit ==
    adj.done => Cmp(Target(adj.bits), AdjP.PowLimit) <= 0

\* C7: before the clip to the PoW limit, the target algorithm A computes
\* from a non-negative prevTarget lies between prevTarget / factor (rounded
\* down) and prevTarget * factor.
C7_AdjustmentWithinFactor ==
    (adj.done /\ Sign(AdjPrevTarget) >= 0)
    => LET newTarget == NewTarget(adj.start, adj.end, AdjP)
       IN  /\ Cmp(Div(AdjPrevTarget, AdjP.RetargetAdjustmentFactor), newTarget) <= 0
           /\ Cmp(newTarget,
                  Mul(AdjPrevTarget, NewInt(AdjP.RetargetAdjustmentFactor))) <= 0

\* a call of A with the end header before the start header that left a
\* quarter of a target of at least the factor
C7_Witness ==
    /\ adj.done
    /\ AdjDelta < 0
    /\ Cmp(AdjPrevTarget, NewInt(AdjP.RetargetAdjustmentFactor)) >= 0
    /\ NewTarget(adj.start, adj.end, AdjP)
         = Div(AdjPrevTarget, AdjP.RetargetAdjustmentFactor)

EarlierSlowHeight ==
    /\ call.fn = "BTCDiff" /\ call.err = "nil"
    /\ P.ReduceMinDifficulty
    /\ ~StartsEpoch(call.height)
    /\ \E h \in (EpochStartOf(call.height) + 1)..(call.height - 1) :
         /\ InStore(h) /\ InStore(h - 1)
         /\ Slow(h)
         /\ BTCDiff(File, h, startheight, P) = Result(P.PowLimitBits, "nil",
                BTCDiff(File, h, startheight, P).io)

\* C9 as stated: after a slow height every later height of the epoch gets
\* PowLimitBits.
C9_FloorUntilBoundary ==
    EarlierSlowHeight => call.bits = P.PowLimitBits

\* C9 as amended: after a slow height, a later height of the epoch gets
\* PowLimitBits when it is slow itself and the bits of the header that
\* starts the epoch when it is not.
C9_FloorForSlowHeightOnly ==
    EarlierSlowHeight
    => call.bits = IF Slow(call.height) THEN P.PowLimitBits
                   ELSE HeaderAt(EpochStartOf(call.height)).Bits

\* after a slow height, a height that is not slow is back at the bits of
\* the epoch start, which are not PowLimitBits
C9_Witness ==
    /\ EarlierSlowHeight
    /\ ~Slow(call.height)
    /\ call.bits = HeaderAt(EpochStartOf(call.height)).Bits
    /\ call.bits # P.PowLimitBits

\* C10: with ReduceMinDifficulty set, a height that starts no epoch (in an
\* epoch that did not start at PowLimitBits) gets PowLimitBits exactly when
\* its header is more than MinDiffReductionTime after the one before.
C10_MinDiffReductionTime ==
    (/\ Returned /\ ~StartsEpoch(call.height)
     /\ P.ReduceMinDifficulty
     /\ HeaderAt(EpochStartOf(call.height)).Bits # P.PowLimitBits)
    => (call.bits = P.PowLimitBits
        <=> HeaderAt(call.height).Timestamp - HeaderAt(call.height - 1).Timestamp
              > P.MinDiffReductionTime)

\* C11: at a height that starts no epoch, LTCDiff and BTCDiff on the same
\* file, start height and Params make the same seeks and reads and return
\* the same bits or the same error.
C11_SameOffBoundary ==
    (call.fn \in {"BTCDiff", "LTCDiff"} /\ GoMod(call.height, EpochLength(P)) # 0)
    => /\ LTCDiff(File, call.height, startheight, P)
            = BTCDiff(File, call.height, startheight, P)
       /\ call.bits = BTCDiff(File, call.height, startheight, P).bits
       /\ call.err = BTCDiff(File, call.height, startheight, P).err
       /\ call.io = BTCDiff(File, call.height, startheight, P).io

\* LTCDiff returned bits at a height that starts no epoch, after three reads
C11_Witness ==
    /\ call.fn = "LTCDiff" /\ call.err = "nil"
    /\ GoMod(call.height, EpochLength(P)) # 0
    /\ Len(call.io) = 6
    /\ call.bits = HeaderAt(EpochStartOf(call.height)).Bits
    /\ call.bits # P.PowLimitBits

\* C12: at a height that starts an epoch, LTCDiff returns what algorithm A
\* gives for (epochStart, prev), epochStart being the first header of the
\* file when height = epochLength and the header of block height -
\* epochLength otherwise.
C12_LTCBoundaryEpochStart ==
    (/\ call.fn = "LTCDiff" /\ call.err = "nil"
     /\ GoMod(call.height, EpochLength(P)) = 0
     /\ call.height = EpochLength(P) \/ InStore(call.height - EpochLength(P)))
    => call.bits =
         calcDiffAdjustBitcoin(
             IF call.height = EpochLength(P) THEN StoreHeader(File, 0)
             ELSE HeaderAt(call.height - EpochLength(P)),
             HeaderAt(call.height - 1), P)

\* C13: for height - 1 < 144 calcDiffAdjustKGW returns PowLimitBits and no
\* error without a seek or a read, whatever the file holds.
C13_GravityWellFloor ==
    (call.fn = "calcDiffAdjustKGW" /\ call.height - 1 < 144)
    => call.bits = P.PowLimitBits /\ call.err = "nil" /\ call.io = <<>>

\* the floor was returned for a height whose previous header the file
\* does not hold
C13_Witness ==
    /\ call.fn = "calcDiffAdjustKGW" /\ call.height - 1 < 144
    /\ ~InStore(call.height - 1)
    /\ call.bits = P.PowLimitBits /\ call.err = "nil" /\ call.io = <<>>

\* what a resolver returns, without the record of its seeks and reads
Outcome(res) == <<res.bits, res.err>>

\* C14: VTCTestDiff gives LTCDiff's result below height 2116, the bits of
\* the header at height - 1 (read after one seek) at the other heights that
\* are no multiple of 12, and calcDiffAdjustKGW's result at the multiples.
C14_HybridDispatch ==
    call.fn = "VTCTestDiff"
    => IF call.height < 2116
       THEN Outcome(call) = Outcome(LTCDiff(File, call.height, startheight, P))
       ELSE IF call.height % 12 # 0
       THEN /\ InStore(call.height - 1)
               => call.err = "nil" /\ call.bits = HeaderAt(call.height - 1).Bits
            /\ ~InStore(call.height - 1) => call.err # "nil"
            /\ Len(call.io) <= 2
       ELSE Outcome(call)
              = Outcome(calcDiffAdjustKGW(File, call.height, startheight, P))

\* height 2400 went to the gravity well: 144 headers were read and the bits
\* are not those of the header before
C14_Witness ==
    /\ call.fn = "VTCTestDiff" /\ call.height = 2400 /\ call.err = "nil"
    /\ Len(call.io) = 2 * minBlocks
    /\ call.bits # HeaderAt(2399).Bits

\* number of header reads in a record of seeks and reads
Reads(io) == Cardinality({i \in 1..Len(io) : io[i][1] = "read"})

\* C15: a call of calcDiffAdjustKGW, and of any other resolver, reads at
\* most maxBlocks = 4032 headers.
C15_AtMostMaxBlocksReads ==
    call.fn # "none" => Reads(call.io) <= 4032

\* the seek or read number i of the call succeeded on the file at hand
Succeeded(i) ==
    IF call.io[i][1] = "seek" THEN call.io[i][2] >= 0
    ELSE call.io[i][2] + HeaderSize <= HeaderSize * StoreLen(File)

\* C16: a call that returns an error returns bits 0 and the error of its
\* last seek or read, the only one that failed; a call that returns no
\* error had every seek and read succeed.
C16_FirstFailureAborts ==
    call.fn # "none"
    => /\ call.err = "nil" => \A i \in 1..Len(call.io) : Succeeded(i)
       /\ call.err # "nil"
          => /\ call.bits = Compact(0, 0)
             /\ Len(call.io) >= 1
             /\ \A i \in 1..(Len(call.io) - 1) : Succeeded(i)
             /\ ~Succeeded(Len(call.io))
             /\ call.err = IF call.io[Len(call.io)][1] = "seek"
                           THEN "negative position" ELSE "EOF"

\* the scan of the gravity well stopped at a seek before the file's start
C16_Witness ==
    /\ call.fn = "calcDiffAdjustKGW"
    /\ call.err = "negative position"
    /\ Len(call.io) > 2 * minBlocks
    /\ call.bits = Compact(0, 0)

\* C17: Register returns ErrDuplicateNet exactly when params.Net is in
\* registeredNets already, and then leaves the five maps as they were;
\* otherwise it returns nil and params.Net is registered.
C17_DuplicateNet ==
    last.op = "Register"
    => LET duplicate == last.params.Net \in last.before.registeredNets
       IN  /\ last.err = "ErrDuplicateNet" <=> duplicate
           /\ duplicate => registry = last.before
           /\ ~duplicate => /\ last.err = "nil"
                            /\ last.params.Net \in registry.registeredNets

\* a program's network with the main network's Net was turned down and its
\* identifiers are in no map
C17_Witness ==
    /\ last.op = "Register"
    /\ last.params \in CustomParams /\ last.params.Net = "MainNet"
    /\ last.err = "ErrDuplicateNet"
    /\ registry = last.before
    /\ last.params.PubKeyHashAddrID \notin registry.pubKeyHashAddrIDs
    /\ registry.hdPrivToPubKeyIDs[last.params.HDPrivateKeyID]
         # last.params.HDPublicKeyID

\* C18: of two Register calls for the same Net, not registered before, that
\* run at once, at most one returns nil.
C18_OneRegistrationWins ==
    \A g \in Goroutines, other \in Goroutines :
        (/\ g # other
         /\ procs[g].pc = "done" /\ procs[other].pc = "done"
         /\ procs[g].params.Net = procs[other].params.Net
         /\ procs[g].params.Net \notin init.registeredNets)
        => ~(procs[g].err = "nil" /\ procs[other].err = "nil")

\* C19: after the package is initialized, Register of any of the package's
\* own networks returns ErrDuplicateNet.
C19_DefaultNetsRegistered ==
    (last.op = "Register" /\ last.params \in Networks)
    => last.err = "ErrDuplicateNet"

\* C20: the Params of every network of the package has a DiffCalcFunction.
C20_DiffCalcFunctionSet ==
    Params(net).DiffCalcFunction # "nil"

\* the registrations of the private ID id so far, as indices of last.hist
RegistrationsOf(id) == {i \in 1..Len(last.hist) : last.hist[i].priv = id}

\* C21: RegisterHDKeyID returns ErrInvalidHDKeyID and changes nothing when
\* one of the IDs is not 4 bytes long, and nil otherwise; a lookup of a
\* private ID returns the public ID of its latest registration that
\* returned nil, and ErrUnknownHDKeyID exactly when there is none (an ID
\* that is not 4 bytes long has none).
C21_HDKeyIDs ==
    /\ last.op = "RegisterHDKeyID"
       => IF Len(last.pub) # 4 \/ Len(last.priv) # 4
          THEN last.err = "ErrInvalidHDKeyID" /\ registry = last.before
          ELSE last.err = "nil"
    /\ \A id \in HDPrivateKeyIDs :
         LET ret == HDPrivateKeyToPublicKeyID(registry, id)
         IN  IF RegistrationsOf(id) = {}
             THEN ret.err = "ErrUnknownHDKeyID" /\ ret.pub = <<>>
             ELSE /\ ret.err = "nil"
                  /\ ret.pub = last.hist[MaxOf(RegistrationsOf(id))].pub
    /\ last.op = "HDPrivateKeyToPublicKeyID"
       => /\ last.err = "ErrUnknownHDKeyID" <=> RegistrationsOf(last.id) = {}
          /\ Len(last.id) # 4 => last.err = "ErrUnknownHDKeyID"

\* a lookup returned the second of two public IDs registered for one
\* private ID, while the 3-byte ID and its zero-padded form are unknown
C21_Witness ==
    /\ last.op = "HDPrivateKeyToPublicKeyID"
    /\ last.err = "nil"
    /\ \E i \in RegistrationsOf(last.id), j \in RegistrationsOf(last.id) :
         /\ i < j
         /\ last.hist[i].pub # last.hist[j].pub
         /\ last.pub = last.hist[j].pub
    /\ HDPrivateKeyToPublicKeyID(registry, <<1, 2, 3>>).err = "ErrUnknownHDKeyID"
    /\ <<1, 2, 3, 0>> \notin DOMAIN registry.hdPrivToPubKeyIDs

\* C22: on every network of the package PowLimitBits is the compact form of
\* PowLimit, so the target PowLimitBits stands for is at most PowLimit.
C22_PowLimitBitsOfPowLimit ==
    /\ BigToCompact(P.PowLimit) = P.PowLimitBits
    /\ Cmp(CompactToBig(P.PowLimitBits), P.PowLimit) <= 0

MinOf(S) == CHOOSE x \in S : \A y \in S : x <= y

\* the target of the header i blocks below the height of the call
TargetBelow(i) == CompactToBig(HeaderAt(call.height - i).Bits)

\* avg_hi from avg_(lo-1) = avg: avg_1 is the target of the first block,
\* avg_i = avg_(i-1) + (target_i - avg_(i-1)) div i
RECURSIVE AverageOver(_, _, _)
AverageOver(avg, lo, hi) ==
    IF lo = hi
    THEN IF lo = 1 THEN TargetBelow(1)
         ELSE Add(avg, Div(Sub(TargetBelow(lo), avg), lo))
    ELSE The({AverageOver(left, ((lo + hi) \div 2) + 1, hi) :
              left \in {AverageOver(avg, lo, (lo + hi) \div 2)}})

\* the target the gravity well owes for a scan of n blocks
GravityWellTarget(n) ==
    LET avg == AverageOver(NewInt(0), 1, n)
        seconds == HeaderAt(call.height - 1).Timestamp
                     - HeaderAt(call.height - n).Timestamp
        actualRate == IF seconds < 0 THEN 0 ELSE seconds
        targetRate == P.TargetTimePerBlock * n
    IN  IF actualRate = 0 \/ targetRate = 0 THEN avg
        ELSE Div(Mul(avg, NewInt(actualRate)), targetRate)

\* a call of the gravity well, past its floor, that returned bits
Scanned ==
    /\ call.fn = "calcDiffAdjustKGW"
    /\ call.height - 1 >= minBlocks
    /\ call.err = "nil"

\* C23: past the floor, a scan of n blocks returns the compact form of
\* min(T, PowLimit), T being the running average of the n targets scaled by
\* actualRate / targetRate (unscaled when one of the rates is 0).
C23_GravityWellFormula ==
    Scanned
    => call.bits = BigToCompact(MinBig(GravityWellTarget(call.scanned),
                                       P.PowLimit))

\* a scan that the event horizon ended between minBlocks and the start of
\* the file, over headers of two different bits and rates that differ
C23_Witness ==
    /\ Scanned
    /\ call.scanned > minBlocks /\ call.scanned < call.height - 2
    /\ base.epochBits # base.bits
    /\ call.bits # BigToCompact(AverageOver(NewInt(0), 1, call.scanned))
    /\ Cmp(GravityWellTarget(call.scanned), P.PowLimit) < 0

\* C24: past the floor, the number n of blocks in the average is at least
\* min(minBlocks, height - 2) and at most min(maxBlocks, height - 2); no
\* block at height 1 or below is in it.
C24_BlocksScannedBounds ==
    Scanned
    => /\ call.scanned >= MinOf({minBlocks, call.height - 2})
       /\ call.scanned <= MinOf({maxBlocks, call.height - 2})
       /\ call.height - call.scanned > 1

\* a scan of maxBlocks blocks that stopped above height 1 with more headers
\* below it
C24_Witness ==
    /\ Scanned
    /\ call.scanned = maxBlocks
    /\ call.height - 2 > maxBlocks

\* C25: in every call each read of a header comes right after a seek of
\* the same call to the position it reads at; the first operation of a call
\* on the file is a seek.
C25_SeekBeforeRead ==
    call.fn # "none"
    => \A i \in 1..Len(call.io) :
         call.io[i][1] = "read"
         => /\ i > 1
            /\ call.io[i - 1] = <<"seek", call.io[i][2]>>

\* the gravity well read more than minBlocks headers, each lower in the
\* file than the one before
C25_Witness ==
    /\ call.fn = "calcDiffAdjustKGW"
    /\ call.err = "nil"
    /\ Reads(call.io) > minBlocks
    /\ \A i \in 1..(Len(call.io) - 2) :
         call.io[i][1] = "read" => call.io[i + 2][2] < call.io[i][2]

\* the identifier id is that of a network whose Register returned nil
PubKeyHashAddrIDOfRegistered(id) ==
    \E params \in last.registered : params.PubKeyHashAddrID = id

ScriptHashAddrIDOfRegistered(id) ==
    \E params \in last.registered : params.ScriptHashAddrID = id

\* C26: IsPubKeyHashAddrID(id) is true exactly when a network registered
\* with success has the pubkey hash identifier id, IsScriptHashAddrID(id)
\* exactly when one has the script hash identifier id, and a lookup that is
\* true stays true whatever is called next.
C26_AddrIDLookups ==
    /\ [](\A id \in AddrIDs :
            /\ IsPubKeyHashAddrID(registry, id)
                 <=> PubKeyHashAddrIDOfRegistered(id)
            /\ IsScriptHashAddrID(registry, id)
                 <=> ScriptHashAddrIDOfRegistered(id)
            /\ last.op = "IsPubKeyHashAddrID"
                 => (last.ok <=> PubKeyHashAddrIDOfRegistered(last.id))
            /\ last.op = "IsScriptHashAddrID"
                 => (last.ok <=> ScriptHashAddrIDOfRegistered(last.id)))
    /\ [][\A id \in AddrIDs :
            /\ IsPubKeyHashAddrID(registry, id)
                 => IsPubKeyHashAddrID(registry', id)
            /\ IsScriptHashAddrID(registry, id)
                 => IsScriptHashAddrID(registry', id)]_vars

\* the identifier 5 was asked for as a pubkey hash identifier: it is the
\* script hash identifier of two registered networks and the pubkey hash
\* identifier of none, and the answer was false; 0 has become a pubkey hash
\* identifier by a Register call
C26_Witness ==
    /\ last.op = "IsPubKeyHashAddrID" /\ last.id = 5 /\ ~last.ok
    /\ IsScriptHashAddrID(registry, 5)
    /\ IsPubKeyHashAddrID(registry, 0) /\ ~IsPubKeyHashAddrID(init, 0)
    /\ Cardinality({params \in last.registered : params.ScriptHashAddrID = 5}) = 2

\* C27: after Register(p) returned nil, IsBech32SegwitPrefix is true for
\* p.Bech32HRPSegwit followed by "1" in every spelling in upper and lower
\* case, whatever the case of the letters of p.Bech32HRPSegwit.
C27_Bech32PrefixAnyCase ==
    (last.op = "Register" /\ last.err = "nil")
    => \A prefix \in CaseVariants(last.params.Bech32HRPSegwit \o <<"1">>) :
         IsBech32SegwitPrefix(registry, prefix)

\* the file r with the header number k replaced by hdr
WithHeader(r, k, hdr) ==
    LET kept == IF k < r.base.len THEN k ELSE r.base.len
    IN  [base |-> [r.base EXCEPT !.len = kept],
         tail |-> [i \in 1..(StoreLen(r) - kept) |->
                     IF kept + i - 1 = k THEN hdr
                     ELSE StoreHeader(r, kept + i - 1)]]

\* headers that differ from hdr in the bits or in the timestamp
OtherHeaders(hdr) ==
    {MkHeader(hdr.Timestamp + dt, bits, base.fill) :
       dt \in {0, 1, -3 * P.TargetTimePerBlock},
       bits \in {hdr.Bits, Compact(27, 4194240), Compact(28, 1048575)}}
    \ {MkHeader(hdr.Timestamp, hdr.Bits, base.fill)}

\* the resolver of the call at hand, on the file r
Resolve(r) ==
    IF call.fn = "BTCDiff" THEN BTCDiff(r, call.height, startheight, P)
    ELSE LTCDiff(r, call.height, startheight, P)

\* C28: without reduceMinDifficulty, BTCDiff and LTCDiff at height h return
\* the same bits and error on two files that hold the same headers below h
\* and different headers at h.
C28_HistoryBelowHeightOnly ==
    (/\ call.fn \in {"BTCDiff", "LTCDiff"}
     /\ ~P.ReduceMinDifficulty
     /\ InStore(call.height))
    => \A hdr \in OtherHeaders(HeaderAt(call.height)) :
         Outcome(Resolve(WithHeader(File, call.height - startheight, hdr)))
           = Outcome(call)

\* offset is 80 * k, told without the product, which a 32-bit integer
\* cannot hold for every k
EightyTimes(offset, k) ==
    offset >= 0 /\ offset % HeaderSize = 0 /\ offset \div HeaderSize = k

\* C29: the first seek of a call for height h goes to the byte offset
\* 80 * k of the header number k = h - startheight - 1 >= 0 of the file,
\* for every k that an int32 height allows.
C29_OffsetIsEightyTimesIndex ==
    (/\ call.fn \in {"BTCDiff", "LTCDiff", "calcDiffAdjustKGW"}
     /\ call.height - startheight - 1 >= 0
     /\ Len(call.io) >= 1)
    => /\ call.io[1][1] = "seek"
       /\ EightyTimes(call.io[1][2], call.height - startheight - 1)

\* the handler data of the command of the last call
Data == commandHandlers[last.command]

ArgsInRange ==
    /\ Len(last.args) >= Data.requiredArgs
    /\ Len(last.args) <= Data.requiredArgs + Data.optionalArgs

\* C30: commandHandler does not panic for a number of arguments within
\* [requiredArgs, requiredArgs + optionalArgs]; a command without conversion
\* handlers sends its arguments as the strings they are; a conversion that
\* fails returns its error and nothing is sent; a number of arguments out
\* of the range returns ErrUsage and nothing is sent.
C30_CommandHandler ==
    last.op = "commandHandler"
    => /\ ArgsInRange => ~last.panic
       /\ (ArgsInRange /\ Data.conversionHandlers.isNil)
          => /\ last.sent
             /\ last.iargs = [i \in 1..Len(last.args) |-> StringArg(last.args[i])]
       /\ (/\ ArgsInRange
           /\ ~Data.conversionHandlers.isNil
           /\ \E i \in 1..Len(last.args) :
                /\ Data.conversionHandlers.handlers[i] = "toInt"
                /\ toInt(last.args[i]).err # "nil")
          => last.err = "strconv.Atoi: invalid syntax" /\ ~last.sent
       /\ ~ArgsInRange => last.err = "ErrUsage" /\ ~last.sent /\ ~last.panic

====
